---- MODULE Spec2Model ----
(***************************************************************************)
(* Process supervisor and request router of nextium                        *)
(* (src/src/process-manager.js, src/src/proxy.js).                         *)
(*                                                                         *)
(* Every call of a supervisor operation is a task.  A task that runs       *)
(* startDevServer creates at most one child process and at most one        *)
(* processInfo object; both are identified by the task's number, which is  *)
(* also the pid of the child (pids are unique, 0 stands for null).         *)
(* One action is one run-to-completion turn of the Node event loop: the    *)
(* synchronous code of a callback together with the promise continuations  *)
(* it releases.  Objects no code can reach any more (the processInfo of a  *)
(* removed record, the ChildProcess of an exited process) are collected.   *)
(***************************************************************************)
EXTENDS Integers, FiniteSets, Sequences, TLC

\* ---------------------------------------------------------------- bounds
MaxTasks == 2
MaxPort == 3001
MaxTimers == 1
\* Times are counted in ticks of the clock, which stops at MaxNow.
MaxNow == 3
\* The idle timeout used when none is configured (300000 ms), in ticks.
DefaultIdle == 2
\* The length of a rate-limit window (60000 ms), in ticks.
Window == 2
\* The requests the rate limiter admits in one window (1000).
Limit == 2
\* A window counts at most MaxCount requests.
MaxCount == 3
MaxScan == 5        \* findAvailablePort is called with ranges within
                    \* PortRangeStart .. PortRangeStart + MaxScan

\* ------------------------------------------------------------- constants
PortRangeStart == 3000

STARTING == "starting"
RUNNING == "running"
STOPPING == "stopping"
STOPPED == "stopped"
MANUAL == "manual"
PROCESS_STATE == {STARTING, RUNNING, STOPPING, STOPPED, MANUAL}

Tasks == 1..MaxTasks
PortRange == PortRangeStart..MaxPort

\* Registered projects and one hostname that is not in the registry.
Domains == {"a.nextium", "b.nextium"}
Hosts == Domains \cup {"u.nextium"}

\* getAllMappings: the static mappings of the configuration, hostname -> port.
mappings == [h \in {"a.nextium", "m.test"} |-> IF h = "m.test" THEN 8080 ELSE 8081]

\* The hostnames requests name: those above, a hostname with a mapping only
\* and one with neither the suffix, a project nor a mapping.
HostNames == Hosts \cup {"m.test", "o.test"}

\* hostname.endsWith(".nextium")
EndsWithNextium(h) == h \in {"a.nextium", "b.nextium", "u.nextium"}

\* The values of the Host header, as the sequence of its parts with the
\* separator ":"; <<>> stands for a request without the header.
HostHeaders ==
  {<<>>, <<":", "8080">>} \cup {<<h>> : h \in HostNames \ {"b.nextium"}}
     \cup {<<h, ":", "8080">> : h \in {"a.nextium", "m.test"}}

\* No window: requestCounts has no entry for the hostname.
NoWindow == [has |-> FALSE, count |-> 0, resetAt |-> 0]

\* No request of a hostname was admitted at any of the last Window ticks.
NoneAdmitted == [i \in 1..Window |-> 0]

\* map.get(k) and map.set(k, v) of a Map held as a function on its keys.
MapGet(map, k, none) == IF k \in DOMAIN map THEN map[k] ELSE none
MapSet(map, k, v) == [x \in DOMAIN map \cup {k} |-> IF x = k THEN v ELSE map[x]]

\* No stopDevServer is awaited by checkIdleProcesses.
\* No call of findAvailablePort.  ret 0 stands for null.
NoScan ==
  [pc |-> "idle", via |-> "none", start |-> 0, end |-> 0, port |-> 0,
   probed |-> <<>>, ret |-> 0, error |-> "none"]

\* The hostnames the config file can map, and the lists Object.keys can
\* return for its mappings: the keys of an object are distinct.
WatchHosts == {"m.test", "o.test"}

KeyLists ==
  {k \in UNION {[1..n -> WatchHosts] : n \in 0..Cardinality(WatchHosts)} :
     \A i, j \in DOMAIN k : k[i] = k[j] => i = j}

Range(q) == {q[i] : i \in DOMAIN q}

\* No run of handleConfigChange yet.
NoRun ==
  [ran |-> FALSE, old |-> <<>>, new |-> <<>>, mkcert |-> FALSE, called |-> FALSE,
   arg |-> <<>>, after |-> <<>>]

\* proxy.js lines 26-28 and an empty config file.
NoWatch ==
  [setup |-> FALSE, watching |-> FALSE, pending |-> FALSE, file |-> <<>>,
   installed |-> FALSE, ca |-> FALSE, currentDomains |-> <<>>, last |-> NoRun]

NoStop == [pc |-> "free", target |-> 0]

\* project.config.port of the registered projects; AUTO stands for "auto".
AUTO == 0
ProjectPort(d) == IF d = "a.nextium" THEN AUTO ELSE PortRangeStart

\* getProject: the registry entry of a hostname, found = FALSE for null.
getProject(h) ==
  IF h \in Domains THEN [found |-> TRUE, port |-> ProjectPort(h)]
                   ELSE [found |-> FALSE, port |-> AUTO]

\* The option sets the callers pass: {} (router, start-project, restart)
\* and {manual: true, streamLogs: true} (the dev command).
StartOptions ==
  {[manual |-> FALSE, streamLogs |-> FALSE], [manual |-> TRUE, streamLogs |-> TRUE]}

VARIABLES
  tasks,             \* the calls of supervisor operations, by task number
  child,             \* the ChildProcess object a start task spawned
  info,              \* the processInfo object a start task created
  runningProcesses,  \* domain -> number of the processInfo held (0: no entry)
  delTimers,         \* domain -> pending 5 s removal timers of exit handlers
  now,               \* the clock read by Date.now() and new Date()
  sweep,             \* the call of checkIdleProcesses in progress, if any
  idleConfig,        \* domain -> config.idle.timeoutMs in the registry
  requestCounts,     \* hostname -> the rate-limit window of the hostname
  admitted,          \* hostname -> the numbers of requests checkRateLimit
                     \* admitted at each of the last Window ticks
  exited,            \* the router has called process.exit
  scan,              \* a call of findAvailablePort: its range, the candidate,
                     \* the probes made so far and what it returned
  watch,             \* the config watcher: the keys of the mappings in the
                     \* config file, whether mkcert and its CA are installed,
                     \* currentDomains, the debounce timer, and what the
                     \* last run of handleConfigChange did
  persisted          \* domain -> what the processes file shows of the record
                     \* of the domain, as last written

vars == <<tasks, child, info, runningProcesses, delTimers, now, sweep, idleConfig,
          requestCounts, admitted, exited, scan, watch, persisted>>

\* The processes file holds no entry for a domain.
NoEntry == [state |-> "none", exitRecorded |-> FALSE]

\* The supervisor writes the processes file and never reads it
\* (loadProcesses, lines 42-52, has no caller), so the file has no effect on
\* the other variables.  A specification that starts with this value does
\* not follow the content of the file.
NotFollowed == [d \in {} |-> NoEntry]

NoTask ==
  [op |-> "none", d |-> "", pc |-> "free", manual |-> FALSE, streamLogs |-> FALSE,
   force |-> FALSE, cand |-> 0, port |-> 0, spawnError |-> FALSE, target |-> 0,
   result |-> "none", cause |-> "none", wrapped |-> FALSE, hdr |-> <<>>,
   fwd |-> 0, resp |-> "none", respError |-> FALSE]

\* res.writeHead(status, ...) followed by res.end(...) on the response of a
\* request: once a response has been ended, writeHead throws
\* ERR_HTTP_HEADERS_SENT and nothing more is delivered.
Respond(task, status) ==
  IF task.resp = "none" THEN [task EXCEPT !.resp = status]
                        ELSE [task EXCEPT !.respError = TRUE]

\* proxy.js lines 341-359: the catch block of the request handler around
\* startDevServer.
RouterCatch(task) == Respond(task, "503")

\* A call has returned: its locals are gone, its outcome is kept.
Returned(task, result, cause, wrapped) ==
  LET r == [NoTask EXCEPT !.op = task.op, !.d = task.d, !.pc = "done",
                          !.result = result, !.cause = cause, !.wrapped = wrapped,
                          !.hdr = task.hdr, !.fwd = task.fwd, !.resp = task.resp,
                          !.respError = task.respError]
  IN IF task.op = "request" /\ result = "error" THEN RouterCatch(r) ELSE r

\* A ChildProcess object: pid (0: undefined), the domain its observers were
\* attached for, whether the process runs, .killed, the strongest signal
\* delivered, and how it exited ("code": with an exit code, "signal": by a
\* signal, exitCode stays null).
NoChild ==
  [pid |-> 0, domain |-> "", alive |-> FALSE, killed |-> FALSE, sig |-> "none",
   exit |-> "none"]

\* A processInfo object (lines 384-394 plus the fields the observers add).
NoInfo ==
  [pid |-> 0, port |-> 0, state |-> "none", mode |-> "none",
   exitRecorded |-> FALSE, error |-> FALSE, startedAt |-> 0, lastAccess |-> 0]

\* The call of checkIdleProcesses: the time it read at its start (line 544),
\* the domains its iteration has not reached yet and its pending call of
\* stopDevServer; seen and stopped record the entries the call examined and
\* those it called stopDevServer for, and are kept, with the time read, for
\* one step after the call has ended.
NoSweep ==
  [pc |-> "idle", now |-> 0, todo |-> <<>>, stop |-> NoStop, seen |-> {},
   stopped |-> {}]

\* config.idle.timeoutMs of a project: not set, or set to ms.
IdleUnset == [set |-> FALSE, ms |-> 0]
IdleSet(ms) == [set |-> TRUE, ms |-> ms]

Init ==
  /\ tasks = [t \in Tasks |-> NoTask]
  /\ child = [t \in Tasks |-> NoChild]
  /\ info = [t \in Tasks |-> NoInfo]
  /\ runningProcesses = [d \in Domains |-> 0]
  /\ delTimers = [d \in Domains |-> 0]
  /\ now = 0
  /\ sweep = NoSweep
  /\ idleConfig = [d \in Domains |-> IdleSet(DefaultIdle)]
  /\ requestCounts = [h \in {} |-> NoWindow]
  /\ admitted = [h \in {} |-> NoneAdmitted]
  /\ exited = FALSE
  /\ scan = NoScan
  /\ watch = NoWatch
  /\ persisted = NotFollowed

\* ------------------------------------------------------------ state values

\* The state as one value; the operators below map states to states.
Cur == [tasks |-> tasks, child |-> child, info |-> info,
        rp |-> runningProcesses, dt |-> delTimers, now |-> now,
        sweep |-> IF sweep.pc = "idle" THEN NoSweep ELSE sweep,
        idle |-> idleConfig, rc |-> requestCounts, adm |-> admitted,
        exited |-> exited, scan |-> scan, watch |-> watch, pf |-> persisted]

\* The start of task p is still running (it holds childProcess, processInfo).
InStart(s, p) == s.tasks[p].pc \in {"alloc", "tick", "ready"}

\* A graceful stop waits for the exit of child p (it holds processInfo p).
HasWaiter(s, p) ==
  \/ \E u \in Tasks : s.tasks[u].pc = "stopwait" /\ s.tasks[u].target = p
  \/ s.sweep.stop.pc = "stopwait" /\ s.sweep.stop.target = p

InTable(s, p) == \E d \in Domains : s.rp[d] = p

\* Garbage collection: a processInfo that is neither in the table nor held by
\* a running call, and the ChildProcess of an exited process that no running
\* call and no record holds, cannot be observed again.
Collect(s) ==
  [s EXCEPT
     !.info = [p \in Tasks |->
        IF InTable(s, p) \/ InStart(s, p) \/ HasWaiter(s, p) THEN s.info[p] ELSE NoInfo],
     !.child = [p \in Tasks |->
        IF s.child[p].alive \/ InTable(s, p) \/ InStart(s, p) \/ HasWaiter(s, p)
        THEN s.child[p]
        ELSE NoChild]]

Commit(s) ==
  \E g \in {Collect(s)} :
  /\ tasks' = g.tasks
  /\ child' = g.child
  /\ info' = g.info
  /\ runningProcesses' = g.rp
  /\ delTimers' = g.dt
  /\ now' = g.now
  /\ sweep' = g.sweep
  /\ idleConfig' = g.idle
  /\ requestCounts' = g.rc
  /\ admitted' = g.adm
  /\ exited' = g.exited
  /\ scan' = g.scan
  /\ watch' = g.watch
  /\ persisted' = g.pf

\* getAllProcesses (lines 529-538): the records of the table by domain.
getAllProcesses(s) ==
  [d \in Domains |->
     IF s.rp[d] = 0 THEN NoEntry
     ELSE [state |-> s.info[s.rp[d]].state,
           exitRecorded |-> s.info[s.rp[d]].exitRecorded]]

\* updatePersistedProcesses (lines 593-596): the table is written to the
\* file.
updatePersistedProcesses(s) ==
  IF s.pf = NotFollowed THEN s ELSE [s EXCEPT !.pf = getAllProcesses(s)]

\* A kill that sends the forceful signal whatever signal is asked for.
Kill_Forceful(s, c, signal) ==
  IF s.child[c].alive
  THEN [s EXCEPT !.child[c].killed = TRUE, !.child[c].sig = "SIGKILL"]
  ELSE s

\* childProcess.kill(signal): delivers the signal and sets .killed only when
\* the process still exists; SIGKILL is never downgraded.
Kill(s, c, signal) ==
  IF s.child[c].alive
  THEN [s EXCEPT !.child[c].killed = TRUE,
                 !.child[c].sig = IF @ = "SIGKILL" THEN "SIGKILL" ELSE signal]
  ELSE s

\* Task number t can be given to a new call: no call runs under it and
\* nothing refers to a process or record of an earlier call with this number.
Reusable(t) ==
  /\ tasks[t].pc \in {"free", "done"}
  /\ ~child[t].alive
  /\ ~InTable(Cur, t)
  /\ ~HasWaiter(Cur, t)

\* The lowest such number is taken, so that equal runs are not counted twice.
FreeSlot(t) == /\ Reusable(t)
               /\ \A u \in Tasks : u < t => ~Reusable(u)

\* The state in which task t starts as a call of op on hostname d.
Called(t, op, d, force) ==
  [Cur EXCEPT !.tasks[t] = [NoTask EXCEPT !.op = op, !.d = d, !.force = force],
              !.child[t] = NoChild,
              !.info[t] = NoInfo]

\* ---------------------------------------------------- findAvailablePort

\* findAvailablePort returns (lines 97, 100): ret is the port, or 0 for null.
\* Called by allocatePort, a null makes the start fail (lines 111-113).
FindReturn(sc, ret) ==
  [sc EXCEPT !.pc = "done", !.ret = ret,
             !.error = IF sc.via = "allocatePort" /\ ret = 0
                       THEN "no port" ELSE "none"]

\* Lines 94-95: the call, and the first test of the loop condition.
FindStart(via, start, end) ==
  LET sc == [NoScan EXCEPT !.via = via, !.start = start, !.end = end]
  IN IF start <= end
     THEN [sc EXCEPT !.pc = "probe", !.port = start]
     ELSE FindReturn(sc, 0)

\* A loop that returns the candidate after an occupied one without a probe.
AfterScanProbe_ReturnsNext(sc, free) ==
  LET sc1 == [sc EXCEPT !.probed = Append(@, [port |-> sc.port, free |-> free])]
  IN IF free THEN FindReturn(sc1, sc.port)
     ELSE IF sc.port + 1 <= sc.end
     THEN FindReturn(sc1, sc.port + 1)
     ELSE FindReturn(sc1, 0)

\* Lines 95-100: isPortAvailable(port) has resolved with free; the loop
\* returns the port, or goes on to the next one, or ends with null.
AfterScanProbe(sc, free) ==
  LET sc1 == [sc EXCEPT !.probed = Append(@, [port |-> sc.port, free |-> free])]
  IN IF free THEN FindReturn(sc1, sc.port)
     ELSE IF sc.port + 1 <= sc.end
     THEN [sc1 EXCEPT !.port = sc.port + 1]
     ELSE FindReturn(sc1, 0)

\* A caller invokes findAvailablePort(start, end).
FindCall(start, end) ==
  /\ scan.pc \in {"idle", "done"}
  /\ Commit([Cur EXCEPT !.scan = FindStart("direct", start, end)])

\* allocatePort of a project with port "auto" (lines 109-110) invokes
\* findAvailablePort() with the default range.
AllocateCall ==
  /\ scan.pc \in {"idle", "done"}
  /\ Commit([Cur EXCEPT !.scan = FindStart("allocatePort", PortRangeStart, MaxPort)])

\* The probe of the candidate resolves (isPortAvailable, lines 71-86).
ScanProbe(free) ==
  /\ scan.pc = "probe"
  /\ Commit([Cur EXCEPT !.scan = AfterScanProbe(scan, free)])

\* ------------------------------------------------------- startDevServer

\* startDevServer without the check of lines 276-282.
StartPrefix_NoActiveCheck(s, t, d, options) ==
  IF ~getProject(d).found
  THEN [s EXCEPT !.tasks[t] = Returned(@, "error", "not found", FALSE)]
  ELSE [s EXCEPT !.tasks[t].pc = "alloc",
                 !.tasks[t].manual = options.manual,
                 !.tasks[t].streamLogs = options.streamLogs,
                 !.tasks[t].result = "none",
                 !.tasks[t].cand = IF getProject(d).port = AUTO
                                   THEN PortRangeStart ELSE getProject(d).port]

\* Lines 270-285: the synchronous prefix of startDevServer(d, options) run by
\* task t, up to the await of allocatePort.
StartPrefix(s, t, d, options) ==
  IF ~getProject(d).found
  THEN [s EXCEPT !.tasks[t] = Returned(@, "error", "not found", FALSE)]
  ELSE IF s.rp[d] # 0 /\ s.info[s.rp[d]].state # STOPPED
  THEN [s EXCEPT !.tasks[t] = Returned(@, "error", "already active", FALSE)]
  ELSE [s EXCEPT !.tasks[t].pc = "alloc",
                 !.tasks[t].manual = options.manual,
                 !.tasks[t].streamLogs = options.streamLogs,
                 !.tasks[t].result = "none",
                 !.tasks[t].cand = IF getProject(d).port = AUTO
                                   THEN PortRangeStart ELSE getProject(d).port]

\* A caller (start-project, dev) invokes startDevServer(domain, options).
StartCall(t, d, o) ==
  /\ FreeSlot(t)
  /\ Commit(StartPrefix(Called(t, "start", d, FALSE), t, d, o))

\* An error observer that marks the record of every domain.
errorHandler_EveryDomain(s, d) ==
  [s EXCEPT !.info = [p \in Tasks |->
     IF \E e \in Domains : s.rp[e] = p
     THEN [s.info[p] EXCEPT !.state = STOPPED, !.error = TRUE]
     ELSE s.info[p]]]

\* errorHandler (lines 326-334).
errorHandler(s, d) ==
  IF s.rp[d] # 0
  THEN [s EXCEPT !.info[s.rp[d]].state = STOPPED, !.info[s.rp[d]].error = TRUE]
  ELSE s

\* An exit observer that schedules the removal and leaves the record as it is.
exitHandler_NoRecord(s, d) == [s EXCEPT !.dt[d] = @ + 1]

\* exitHandler (lines 337-351): the record found under the domain becomes
\* STOPPED and a removal timer is scheduled.
exitHandler(s, d) ==
  LET s1 == IF s.rp[d] # 0
            THEN [s EXCEPT !.info[s.rp[d]].state = STOPPED,
                           !.info[s.rp[d]].exitRecorded = TRUE]
            ELSE s
  IN [s1 EXCEPT !.dt[d] = @ + 1]

\* Lines 306-372: spawn on the allocated port and attach the observers.
\* outcome: "ok" (a process with a pid), "throws" (spawn throws), "error"
\* (a ChildProcess without pid whose 'error' event is emitted on the next
\* tick, before the setImmediate callback).
SpawnStep(s, t, port, outcome) ==
  CASE outcome = "throws" ->
         [s EXCEPT !.tasks[t] = Returned(@, "error", "spawn failed", FALSE)]
    [] outcome = "error" ->
         errorHandler([s EXCEPT !.tasks[t].pc = "tick", !.tasks[t].port = port,
                                !.tasks[t].cand = 0, !.tasks[t].spawnError = TRUE],
                      s.tasks[t].d)
    [] outcome = "ok" ->
         [s EXCEPT !.tasks[t].pc = "tick", !.tasks[t].port = port, !.tasks[t].cand = 0,
                   !.child[t] = [NoChild EXCEPT !.pid = t, !.alive = TRUE,
                                               !.domain = s.tasks[t].d]]

\* allocatePort / findAvailablePort / isPortAvailable (lines 71-123): the probe
\* of the candidate port has completed.  free is the answer of the operating
\* system: other programs and the children bind and release ports at any time.
\* A free port is returned and the process is spawned in the same turn.
AfterProbe(s, t, free, outcome) ==
  LET auto == getProject(s.tasks[t].d).port = AUTO
      cand == s.tasks[t].cand
  IN IF free THEN SpawnStep(s, t, cand, outcome)
     ELSE IF auto /\ cand + 1 <= MaxPort
     THEN [s EXCEPT !.tasks[t].cand = cand + 1]
     ELSE [s EXCEPT !.tasks[t] =
             Returned(@, "error", IF auto THEN "no port" ELSE "port in use", FALSE)]

ProbePort(t, free, outcome) ==
  /\ tasks[t].pc = "alloc"
  /\ ~free => outcome = "ok"
  /\ Commit(AfterProbe(Cur, t, free, outcome))

\* The catch block without runningProcesses.delete(domain) of line 429.
StartCatch_NoDelete(s, t, cause) ==
  LET s1 == IF ~s.child[t].killed THEN Kill(s, t, "SIGTERM") ELSE s
  IN [s1 EXCEPT !.tasks[t] = Returned(@, "error", cause, TRUE)]

\* The catch block of startDevServer (lines 420-437).
StartCatch(s, t, cause) ==
  LET s1 == IF ~s.child[t].killed THEN Kill(s, t, "SIGTERM") ELSE s
  IN [s1 EXCEPT !.rp[s.tasks[t].d] = 0,
                !.tasks[t] = Returned(@, "error", cause, TRUE)]

\* The registration without the checks of lines 375-382.
AfterTick_NoPidCheck(s, t) ==
  LET s1 == [s EXCEPT
              !.info[t] = [pid |-> s.child[t].pid, port |-> s.tasks[t].port,
                           state |-> STARTING,
                           mode |-> IF s.tasks[t].manual THEN "manual" ELSE "managed",
                           exitRecorded |-> FALSE, error |-> FALSE,
                           startedAt |-> s.now, lastAccess |-> s.now],
              !.rp[s.tasks[t].d] = t]
  IN [s1 EXCEPT !.tasks[t].pc = "ready", !.tasks[t].port = 0]

\* Lines 374-405: after the setImmediate tick, check the spawn, register the
\* record as STARTING and enter waitForReady (its synchronous part, lines
\* 136-148 for passthrough).
AfterTick(s, t) ==
  IF s.tasks[t].spawnError \/ s.child[t].pid = 0
  THEN [s EXCEPT !.tasks[t] = Returned(@, "error", "spawn failed", FALSE)]
  ELSE LET s1 == [s EXCEPT
                   !.info[t] = [pid |-> s.child[t].pid, port |-> s.tasks[t].port,
                                state |-> STARTING,
                                mode |-> IF s.tasks[t].manual THEN "manual" ELSE "managed",
                                exitRecorded |-> FALSE, error |-> FALSE,
                                startedAt |-> s.now, lastAccess |-> s.now],
                   !.rp[s.tasks[t].d] = t]
       IN IF s.tasks[t].streamLogs
             /\ (s.child[t].killed \/ s.child[t].exit = "code")
          THEN StartCatch(s1, t, "exited")
          ELSE [s1 EXCEPT !.tasks[t].pc = "ready", !.tasks[t].port = 0]

StartTick(t) ==
  /\ tasks[t].pc = "tick"
  /\ Commit(AfterTick(Cur, t))

\* Lines 407-419: waitForReady has resolved.
StartResolved(s, t) ==
  IF s.child[t].killed
  THEN StartCatch(s, t, "killed")
  ELSE updatePersistedProcesses(
         [s EXCEPT !.info[t].state = IF s.tasks[t].manual THEN MANUAL ELSE RUNNING,
                   !.tasks[t] = Returned(@, "ok", "none", FALSE)])

\* waitForReady, captured output (lines 208-220): the child writes a chunk
\* that matches a ready pattern while the start awaits readiness.  A chunk
\* left in the pipe can be delivered after the 'exit' event of a child that
\* exited before the exit listener of waitForReady was attached.
ReadyOutput(t) ==
  /\ tasks[t].pc = "ready" /\ ~tasks[t].streamLogs
  /\ child[t].pid # 0
  /\ Commit(StartResolved(Cur, t))

\* A readiness timer whose callback rejects nothing.
ReadyTimer_NoReject(s, t) == s

\* The callback of the 30 s timer (lines 196-198): waitForReady rejects and
\* startDevServer goes on in its catch block.
ReadyTimer(s, t) == StartCatch(s, t, "timeout")

\* waitForReady, captured output (lines 196-198): the 30 s timer fires.
ReadyTimeout(t) ==
  /\ tasks[t].pc = "ready" /\ ~tasks[t].streamLogs
  /\ Commit(ReadyTimer(Cur, t))

\* waitForReady, passthrough (lines 150-168): the 5 s timer fires.
StreamDelay(t) ==
  /\ tasks[t].pc = "ready" /\ tasks[t].streamLogs
  /\ Commit(IF child[t].killed \/ child[t].exit = "code"
            THEN StartCatch(Cur, t, "exited")
            ELSE StartResolved(Cur, t))

\* ---------------------------------------------------------- stopDevServer

\* The promise of stopDevServer is settled with value v: the caller resumes.
StopSettled(task, v) ==
  IF task.op = "restart"
  THEN [task EXCEPT !.pc = "settle", !.result = v, !.target = 0]
  ELSE Returned(task, v, "none", FALSE)

\* stopDevServer that returns early only for a missing record.
StopPrefix_NoStoppedCheck(s, t, d, force) ==
  LET p == IF d \in Domains THEN s.rp[d] ELSE 0 IN
  IF p = 0
  THEN [s EXCEPT !.tasks[t] = StopSettled(@, "false")]
  ELSE LET s1 == [s EXCEPT !.info[p].state = STOPPING] IN
       IF force
       THEN [Kill(s1, p, "SIGKILL") EXCEPT !.tasks[t] = StopSettled(@, "true")]
       ELSE [Kill(s1, p, "SIGTERM") EXCEPT !.tasks[t].pc = "stopwait",
                                           !.tasks[t].target = p]

\* stopDevServer(d, force) (lines 446-478) run by task t, up to the point
\* where it returns or waits for the exit.
StopPrefix(s, t, d, force) ==
  LET p == IF d \in Domains THEN s.rp[d] ELSE 0 IN
  IF p = 0 \/ s.info[p].state = STOPPED
  THEN [s EXCEPT !.tasks[t] = StopSettled(@, "false")]
  ELSE LET s1 == [s EXCEPT !.info[p].state = STOPPING] IN
       IF force
       THEN [Kill(s1, p, "SIGKILL") EXCEPT !.tasks[t] = StopSettled(@, "true")]
       ELSE [Kill(s1, p, "SIGTERM") EXCEPT !.tasks[t].pc = "stopwait",
                                           !.tasks[t].target = p]

\* A caller invokes stopDevServer(domain, force).
StopCall(t, d, force) ==
  /\ FreeSlot(t)
  /\ Commit(StopPrefix(Called(t, "stop", d, force), t, d, force))

\* Lines 468-471: the 10 s grace timer of a graceful stop fires.
StopTimeout(t) ==
  /\ tasks[t].pc = "stopwait"
  /\ Commit([Kill(Cur, tasks[t].target, "SIGKILL") EXCEPT
               !.tasks[t] = StopSettled(@, "true")])

\* ----------------------------------------------------- checkIdleProcesses

\* The orders in which runningProcesses.entries() can yield the domains (the
\* order of insertion into the Map).
Orders ==
  {o \in [1..Cardinality(Domains) -> Domains] : \A i, j \in DOMAIN o : o[i] = o[j] => i = j}

\* Line 562: project.config.idle?.timeoutMs || 300000.
idleTimeout(s, d) ==
  IF s.idle[d].set /\ s.idle[d].ms # 0 THEN s.idle[d].ms ELSE DefaultIdle

\* An iteration that passes over an entry only for its state, and takes a
\* MANUAL record for a running one.
Skipped_OnlyByState(s, d) ==
  \/ s.rp[d] = 0
  \/ s.info[s.rp[d]].state \notin {RUNNING, MANUAL}
  \/ ~getProject(d).found

\* Lines 546-560: the iteration passes over the entry of domain d.
Skipped(s, d) ==
  \/ s.rp[d] = 0
  \/ s.info[s.rp[d]].mode = "manual"
  \/ s.info[s.rp[d]].state # RUNNING
  \/ ~getProject(d).found

\* Lines 563-566: idleTime > idleTimeout, with the time read at line 544.
IsIdle(s, d) == s.sweep.now - s.info[s.rp[d]].lastAccess > idleTimeout(s, d)

\* Line 572: stopDevServer(domain) called by checkIdleProcesses, whose call
\* frame is kept in sweep.stop.
SweepStop(s, d) ==
  LET s0 == [s EXCEPT !.tasks = [u \in 0..MaxTasks |->
                IF u = 0 THEN [NoTask EXCEPT !.op = "sweep", !.d = d] ELSE s.tasks[u]]]
      r == StopPrefix(s0, 0, d, FALSE)
  IN [r EXCEPT !.tasks = [u \in Tasks |-> r.tasks[u]],
               !.sweep.stop = [pc |-> r.tasks[0].pc, target |-> r.tasks[0].target],
               !.sweep.stopped = @ \cup {d}]

\* Lines 546-574: the loop of checkIdleProcesses from its current position to
\* its next await or to its end.
RECURSIVE SweepLoop(_)
SweepLoop(s) ==
  IF s.sweep.todo = <<>>
  THEN [s EXCEPT !.sweep.pc = "idle", !.sweep.stop = NoStop]
  ELSE LET d == Head(s.sweep.todo)
           s1 == [s EXCEPT !.sweep.todo = Tail(@),
                           !.sweep.seen = IF s.rp[d] # 0 THEN @ \cup {d} ELSE @]
       IN IF Skipped(s, d) \/ ~IsIdle(s, d)
          THEN SweepLoop(s1)
          ELSE LET s2 == SweepStop(s1, d)
               IN IF s2.sweep.stop.pc = "stopwait"
                  THEN [s2 EXCEPT !.sweep.pc = "wait"]
                  ELSE SweepLoop(s2)

\* startIdleCheck (lines 582-588): the interval timer calls
\* checkIdleProcesses; no earlier call is in progress.
SweepStart(ord) ==
  /\ sweep.pc = "idle"
  /\ Commit(SweepLoop([Cur EXCEPT !.sweep =
               [NoSweep EXCEPT !.pc = "run", !.now = now, !.todo = ord]]))

\* The stopDevServer awaited at line 572 has resolved: the loop goes on.
SweepResume(s) == SweepLoop([s EXCEPT !.sweep.pc = "run", !.sweep.stop = NoStop])

\* Lines 468-471, for the stopDevServer that checkIdleProcesses awaits.
SweepStopTimeout ==
  /\ sweep.pc = "wait"
  /\ Commit(SweepResume(Kill(Cur, sweep.stop.target, "SIGKILL")))

\* The clock advances.
Advance ==
  /\ now < MaxNow
  /\ Commit([Cur EXCEPT !.now = @ + 1,
                        !.adm = [h \in DOMAIN @ |-> Tail(@[h]) \o <<0>>]])

\* ------------------------------------------------------------------ cleanup

\* Line 608: stopDevServer(domain, true) called by cleanup.
CleanupStop(s, d) ==
  LET s0 == [s EXCEPT !.tasks = [u \in 0..MaxTasks |->
                IF u = 0 THEN [NoTask EXCEPT !.op = "cleanup", !.d = d] ELSE s.tasks[u]]]
      r == StopPrefix(s0, 0, d, TRUE)
  IN [r EXCEPT !.tasks = [u \in Tasks |-> r.tasks[u]]]

\* Lines 606-615: the loop over the domains.
RECURSIVE CleanupLoop(_, _)
CleanupLoop(s, todo) ==
  IF todo = <<>> THEN s ELSE CleanupLoop(CleanupStop(s, Head(todo)), Tail(todo))

\* cleanup (lines 601-619): a forced stop of every domain that has a record,
\* in the order ord of the keys, then runningProcesses.clear().  A forced
\* stop resolves at once, so the whole call runs in one turn.
cleanup(s, ord) ==
  updatePersistedProcesses(
    [CleanupLoop(s, SelectSeq(ord, LAMBDA d : s.rp[d] # 0))
       EXCEPT !.rp = [d \in Domains |-> 0]])

\* The handlers of SIGTERM and SIGINT (proxy.js lines 157-180): cleanup, then
\* process.exit(0).
Shutdown(ord) ==
  /\ ~exited
  /\ Commit([cleanup(Cur, ord) EXCEPT !.exited = TRUE])

\* ----------------------------------------------------------- config watcher

\* A handler that regenerates the certificates on every run.
handleConfigChange_EveryRun(w) ==
  LET newDomains == w.file
      domainsChanged ==
        \/ Len(newDomains) # Len(w.currentDomains)
        \/ ~\A i \in DOMAIN newDomains : newDomains[i] \in Range(w.currentDomains)
      mkcert == w.installed /\ w.ca
      call == Len(newDomains) > 0 /\ mkcert
      after == IF domainsChanged THEN newDomains ELSE w.currentDomains
  IN [w EXCEPT !.currentDomains = after,
               !.last = [ran |-> TRUE, old |-> w.currentDomains, new |-> newDomains,
                         mkcert |-> mkcert, called |-> call,
                         arg |-> IF call THEN newDomains ELSE <<>>,
                         after |-> after]]

\* handleConfigChange (proxy.js lines 106-150): the keys of the mappings are
\* compared with currentDomains by length and membership; on a change
\* currentDomains is replaced and ensureCertificates(newDomains) is called
\* when the list is not empty and mkcert and its CA are installed.
handleConfigChange(w) ==
  LET newDomains == w.file
      domainsChanged ==
        \/ Len(newDomains) # Len(w.currentDomains)
        \/ ~\A i \in DOMAIN newDomains : newDomains[i] \in Range(w.currentDomains)
      mkcert == w.installed /\ w.ca
      call == domainsChanged /\ Len(newDomains) > 0 /\ mkcert
      after == IF domainsChanged THEN newDomains ELSE w.currentDomains
  IN [w EXCEPT !.currentDomains = after,
               !.last = [ran |-> TRUE, old |-> w.currentDomains, new |-> newDomains,
                         mkcert |-> mkcert, called |-> call,
                         arg |-> IF call THEN newDomains ELSE <<>>,
                         after |-> after]]

\* setupConfigWatcher (proxy.js lines 75-101), called once when the router
\* starts: currentDomains is read, then fs.watch succeeds (ok) or throws.
SetupConfigWatcher(ok) ==
  /\ ~watch.setup
  /\ Commit([Cur EXCEPT !.watch.setup = TRUE, !.watch.watching = ok,
                        !.watch.currentDomains = watch.file])

\* Another program writes the config file (config.js lines 38-48): the keys
\* of its mappings become keys; a watcher (lines 84-94) clears and arms the
\* debounce timer.
ConfigWrite(keys) ==
  /\ keys # watch.file
  /\ Commit([Cur EXCEPT !.watch.file = keys,
                        !.watch.pending = watch.watching])

\* mkcert or its CA is installed or removed (certificates.js lines 23-57).
MkcertChange(installed, ca) ==
  /\ <<installed, ca>> # <<watch.installed, watch.ca>>
  /\ Commit([Cur EXCEPT !.watch.installed = installed, !.watch.ca = ca])

\* The debounce timer fires (lines 91-93).
DebounceFire ==
  /\ watch.pending
  /\ Commit([Cur EXCEPT !.watch = handleConfigChange([watch EXCEPT !.pending = FALSE])])

\* SIGHUP (lines 177-180); the handlers are installed after the watcher is
\* set up (lines 631-638).
Sighup ==
  /\ watch.setup
  /\ Commit([Cur EXCEPT !.watch = handleConfigChange(watch)])

\* ------------------------------------------------------- restartDevServer

\* restartDevServer (lines 486-487): the graceful stop is called.
RestartCall(t, d) ==
  /\ FreeSlot(t)
  /\ Commit(StopPrefix(Called(t, "restart", d, FALSE), t, d, FALSE))

\* Lines 490-492: the 1 s settle timer fires; restart returns the promise of
\* startDevServer(domain, {}), so the call goes on as that start.
RestartSettle(t) ==
  /\ tasks[t].pc = "settle"
  /\ Commit(StartPrefix([Cur EXCEPT !.tasks[t].op = "start"], t, tasks[t].d,
                        [manual |-> FALSE, streamLogs |-> FALSE]))

\* ----------------------------------------------------------- child events

\* The child exits (how = "code": with an exit code, "signal": killed by a
\* signal, exitCode stays null) and its 'exit' event is emitted: exitHandler,
\* then the exit listener of a pending waitForReady (lines 182-187, 250-255),
\* then the exit listeners of the graceful stops that wait for this child;
\* a checkIdleProcesses that awaits such a stop goes on with its loop.
AfterExit(s, c, how) ==
  LET s1 == exitHandler([s EXCEPT !.child[c].alive = FALSE, !.child[c].exit = how],
                        s.child[c].domain)
      s2 == IF s1.tasks[c].pc = "ready" THEN StartCatch(s1, c, "exited") ELSE s1
      s3 == [s2 EXCEPT !.tasks = [u \in Tasks |->
               IF s2.tasks[u].pc = "stopwait" /\ s2.tasks[u].target = c
               THEN StopSettled(s2.tasks[u], "true") ELSE s2.tasks[u]]]
  IN IF s3.sweep.pc = "wait" /\ s3.sweep.stop.target = c THEN SweepResume(s3) ELSE s3

ProcExit(c, how) ==
  /\ child[c].alive
  /\ delTimers[child[c].domain] < MaxTimers
  /\ Commit(AfterExit(Cur, c, how))

\* Lines 347-350: a removal timer scheduled by an exit handler fires.
RemovalTimer(d) ==
  /\ delTimers[d] > 0
  /\ Commit(updatePersistedProcesses([Cur EXCEPT !.rp[d] = 0, !.dt[d] = @ - 1]))

\* ------------------------------------------------------------------ router

\* An update that writes the time 0 instead of the current time.
updateLastAccess_Epoch(s, d) ==
  IF s.rp[d] # 0 THEN [s EXCEPT !.info[s.rp[d]].lastAccess = 0] ELSE s

\* updateLastAccess (lines 499-506).
updateLastAccess(s, d) ==
  IF s.rp[d] # 0
  THEN updatePersistedProcesses([s EXCEPT !.info[s.rp[d]].lastAccess = s.now])
  ELSE s

\* getProcessInfo followed by the liveness probe process.kill(pid, 0)
\* (proxy.js lines 284-317): the record the router goes on with, 0 for null.
ProbedInfo(s, h) ==
  IF s.rp[h] = 0 THEN 0
  ELSE IF s.info[s.rp[h]].pid # 0 /\ ~s.child[s.rp[h]].alive THEN 0
  ELSE s.rp[h]

\* A handler that starts the dev server without answering the request.
showLoadingPage_Nothing(task) == task

\* showLoadingPage (proxy.js lines 194-252): status 200 with Refresh: 2.
showLoadingPage(task) == Respond(task, "loading")

\* proxy.web(req, res, {target}): the request is forwarded to the port.
Forward(task, port) == Respond([task EXCEPT !.fwd = port], "forwarded")

\* A handler that looks a hostname up in the mappings before the registry.
AfterRequest_MappingFirst(s, t, h) ==
  IF h \in DOMAIN mappings
  THEN [s EXCEPT !.tasks[t] = Returned(Forward(@, mappings[h]), "forwarded", "none", FALSE)]
  ELSE IF getProject(h).found
  THEN StartPrefix([s EXCEPT !.tasks[t] = showLoadingPage(@)], t, h,
                   [manual |-> FALSE, streamLogs |-> FALSE])
  ELSE [s EXCEPT !.tasks[t] = Returned(Respond(@, "404"), "404", "none", FALSE)]

\* createRequestHandler (proxy.js lines 279-445) for a request to hostname h
\* that the rate limiter has admitted: the managed path of a project, the
\* forward to a mapped port, or 404.
AfterRequest(s, t, h) ==
  IF getProject(h).found
  THEN LET p == ProbedInfo(s, h) IN
       IF p = 0 \/ s.info[p].state = STOPPED \/ s.info[p].state = STOPPING
       THEN StartPrefix([s EXCEPT !.tasks[t] = showLoadingPage(@)], t, h,
                        [manual |-> FALSE, streamLogs |-> FALSE])
       ELSE [updateLastAccess(s, h) EXCEPT
                      !.tasks[t] = Returned(Forward(@, s.info[p].port),
                                            "forwarded", "none", FALSE)]
  ELSE IF h \in DOMAIN mappings
  THEN [s EXCEPT !.tasks[t] = Returned(Forward(@, mappings[h]), "forwarded", "none", FALSE)]
  ELSE [s EXCEPT !.tasks[t] = Returned(Respond(@, "404"), "404", "none", FALSE)]

\* A request for hostname h that passes the test of line 262 and that
\* checkRateLimit admits.
Request(t, h) ==
  /\ FreeSlot(t)
  /\ Commit(AfterRequest(Called(t, "request", h, FALSE), t, h))

\* req.headers.host ? req.headers.host.split(":")[0] : "" (line 259).
hostname(hdr) == IF hdr = <<>> \/ Head(hdr) = ":" THEN "" ELSE Head(hdr)

\* A limiter that rejects the request that reaches the limit.
checkRateLimit_OffByOne(s, h) ==
  LET r == MapGet(s.rc, h, NoWindow)
      fresh == [has |-> TRUE, count |-> 1, resetAt |-> s.now + Window]
  IN IF ~r.has \/ s.now > r.resetAt THEN [ok |-> TRUE, rc |-> fresh]
     ELSE [ok |-> r.count + 1 < Limit, rc |-> [r EXCEPT !.count = @ + 1]]

\* checkRateLimit (lines 46-70): the answer and the new entry of hostname h.
checkRateLimit(s, h) ==
  LET r == MapGet(s.rc, h, NoWindow)
      fresh == [has |-> TRUE, count |-> 1, resetAt |-> s.now + Window]
  IN IF ~r.has THEN [ok |-> TRUE, rc |-> fresh]
     ELSE IF s.now > r.resetAt THEN [ok |-> TRUE, rc |-> fresh]
     ELSE [ok |-> ~(r.count + 1 > Limit), rc |-> [r EXCEPT !.count = @ + 1]]

\* A handler that counts the request and goes on whatever the limiter says.
AfterHandle_IgnoreLimit(s, t, hdr) ==
  LET h == hostname(hdr) IN
  IF h # "" /\ (EndsWithNextium(h) \/ h \in DOMAIN mappings)
  THEN AfterRequest([s EXCEPT
         !.rc = MapSet(@, h, checkRateLimit(s, h).rc),
         !.adm = MapSet(@, h, [MapGet(@, h, NoneAdmitted) EXCEPT ![Window] = @ + 1])],
         t, h)
  ELSE [s EXCEPT !.tasks[t] = Returned(Respond(@, "404"), "404", "none", FALSE)]

\* createRequestHandler (lines 258-461) for a request with Host header hdr.
AfterHandle(s, t, hdr) ==
  LET h == hostname(hdr) IN
  IF h # "" /\ (EndsWithNextium(h) \/ h \in DOMAIN mappings)
  THEN LET c == checkRateLimit(s, h)
           s1 == [s EXCEPT
                   !.rc = MapSet(@, h, c.rc),
                   !.adm = IF c.ok
                           THEN MapSet(@, h, [MapGet(@, h, NoneAdmitted)
                                                EXCEPT ![Window] = @ + 1])
                           ELSE @]
       IN IF ~c.ok
          THEN [s1 EXCEPT !.tasks[t] = Returned(Respond(@, "429"), "429", "none", FALSE)]
          ELSE AfterRequest(s1, t, h)
  ELSE [s EXCEPT !.tasks[t] = Returned(Respond(@, "404"), "404", "none", FALSE)]

\* A handler that goes on with the request after it has answered 429.
HandleRequest_RejectedGoesOn(t, hdr) ==
  /\ FreeSlot(t)
  /\ LET h == hostname(hdr) IN
       h \in DOMAIN requestCounts =>
         (requestCounts[h].count < MaxCount \/ now > requestCounts[h].resetAt)
  /\ LET s1 == AfterHandle([Called(t, "request", hostname(hdr), FALSE)
                              EXCEPT !.tasks[t].hdr = hdr], t, hdr)
     IN Commit(IF s1.tasks[t].resp = "429"
               THEN AfterRequest(s1, t, hostname(hdr))
               ELSE s1)

\* A request arrives; the window of its hostname has counted fewer than
\* MaxCount requests or has expired.
HandleRequest(t, hdr) ==
  /\ FreeSlot(t)
  /\ LET h == hostname(hdr) IN
       h \in DOMAIN requestCounts =>
         (requestCounts[h].count < MaxCount \/ now > requestCounts[h].resetAt)
  /\ Commit(AfterHandle([Called(t, "request", hostname(hdr), FALSE)
                           EXCEPT !.tasks[t].hdr = hdr], t, hdr))

Next ==
  \/ \E t \in Tasks, d \in Hosts, o \in StartOptions : StartCall(t, d, o)
  \/ \E t \in Tasks, free \in BOOLEAN, oc \in {"ok", "throws", "error"} :
       ProbePort(t, free, oc)
  \/ \E t \in Tasks : StartTick(t)
  \/ \E t \in Tasks : ReadyOutput(t)
  \/ \E t \in Tasks : ReadyTimeout(t)
  \/ \E t \in Tasks : StreamDelay(t)
  \/ \E t \in Tasks, d \in Hosts, f \in BOOLEAN : StopCall(t, d, f)
  \/ \E t \in Tasks : StopTimeout(t)
  \/ \E t \in Tasks, d \in Domains : RestartCall(t, d)
  \/ \E t \in Tasks : RestartSettle(t)
  \/ \E c \in Tasks, how \in {"code", "signal"} : ProcExit(c, how)
  \/ \E d \in Domains : RemovalTimer(d)
  \/ \E t \in Tasks, h \in Hosts : Request(t, h)

Spec == Init /\ [][Next]_vars

\* The event loop runs every callback that is due: the probe server of
\* isPortAvailable emits 'listening' or 'error', the setImmediate callback
\* runs, and the readiness timers (30 s, 5 s) fire unless cleared.
\* For one call at most one of these is pending at a time.
StartStep(t) ==
  \/ \E free \in BOOLEAN, oc \in {"ok", "throws", "error"} : ProbePort(t, free, oc)
  \/ StartTick(t)
  \/ ReadyTimeout(t)
  \/ StreamDelay(t)

StartFairness == \A t \in Tasks : WF_vars(StartStep(t))

\* The calls and events that bear on the completion of a start: starts of
\* the project with port "auto" (two overlapping managed starts, or one of the
\* dev command), a graceful stop called while a start is in flight, and the
\* events of the children.
NextLive ==
  \/ \E t \in Tasks : StartCall(t, "a.nextium", [manual |-> FALSE, streamLogs |-> FALSE])
  \/ StartCall(1, "a.nextium", [manual |-> TRUE, streamLogs |-> TRUE])
  \/ \E t \in Tasks, free \in BOOLEAN : ProbePort(t, free, "ok")
  \/ \E t \in Tasks : StartTick(t)
  \/ \E t \in Tasks : ReadyOutput(t)
  \/ \E t \in Tasks : ReadyTimeout(t)
  \/ \E t \in Tasks : StreamDelay(t)
  \/ StopCall(2, "a.nextium", FALSE)
  \/ \E t \in Tasks : StopTimeout(t)
  \/ \E c \in Tasks : ProcExit(c, "code")
  \/ \E d \in Domains : RemovalTimer(d)

SpecLive == Init /\ [][NextLive]_vars /\ StartFairness

\* The idle reaper beside the router: the registry holds, for each project,
\* an idle timeout that is not set, set to 0 or set to 1; requests arrive,
\* the dev command starts projects, children get ready or exit, the clock
\* advances and the interval timer of startIdleCheck fires.
IdleConfigs ==
  {c \in [Domains -> {IdleUnset, IdleSet(0), IdleSet(1)}] : c["b.nextium"] = IdleUnset}

InitIdle ==
  /\ tasks = [t \in Tasks |-> NoTask]
  /\ child = [t \in Tasks |-> NoChild]
  /\ info = [t \in Tasks |-> NoInfo]
  /\ runningProcesses = [d \in Domains |-> 0]
  /\ delTimers = [d \in Domains |-> 0]
  /\ now = 0
  /\ sweep = NoSweep
  /\ idleConfig \in IdleConfigs
  /\ requestCounts = [h \in {} |-> NoWindow]
  /\ admitted = [h \in {} |-> NoneAdmitted]
  /\ exited = FALSE
  /\ scan = NoScan
  /\ watch = NoWatch
  /\ persisted = NotFollowed

NextIdle ==
  \/ \E t \in Tasks : Request(t, "a.nextium")
  \/ \E t \in Tasks : StartCall(t, "b.nextium", [manual |-> TRUE, streamLogs |-> TRUE])
  \/ \E t \in Tasks : ProbePort(t, TRUE, "ok")
  \/ \E t \in Tasks : StartTick(t)
  \/ \E t \in Tasks : ReadyOutput(t)
  \/ \E t \in Tasks : StreamDelay(t)
  \/ \E c \in Tasks : ProcExit(c, "code")
  \/ \E d \in Domains : RemovalTimer(d)
  \/ Advance
  \/ \E ord \in Orders : SweepStart(ord)
  \/ SweepStopTimeout

SpecIdle == InitIdle /\ [][NextIdle]_vars

\* The rate limiter alone: requests for a hostname with a mapping, for one
\* with the suffix only and for one the router does not know, while the
\* clock advances.
LimiterHeaders == {<<"m.test">>, <<"u.nextium">>, <<"o.test">>}

NextLimiter ==
  \/ \E t \in Tasks, hdr \in LimiterHeaders : HandleRequest(t, hdr)
  \/ Advance

SpecLimiter == Init /\ [][NextLimiter]_vars

\* The router: requests with every Host header, the starts they trigger and
\* the processes of these starts, within one rate-limit window.
NextRouter ==
  \/ \E t \in Tasks, hdr \in HostHeaders : HandleRequest(t, hdr)
  \/ \E t \in Tasks : ProbePort(t, TRUE, "ok")
  \/ \E t \in Tasks : StartTick(t)
  \/ \E t \in Tasks : ReadyOutput(t)
  \/ \E c \in Tasks : ProcExit(c, "code")
  \/ \E d \in Domains : RemovalTimer(d)

SpecRouter == Init /\ [][NextRouter]_vars

\* The shutdown of the router: starts, their processes, and a termination
\* signal, after which no code of the router runs.
NextShutdown ==
  \/ ~exited /\ \E t \in Tasks, d \in Domains :
                  StartCall(t, d, [manual |-> FALSE, streamLogs |-> FALSE])
  \/ ~exited /\ \E t \in Tasks : ProbePort(t, TRUE, "ok")
  \/ ~exited /\ \E t \in Tasks : StartTick(t)
  \/ ~exited /\ \E t \in Tasks : ReadyOutput(t)
  \/ ~exited /\ \E c \in Tasks : ProcExit(c, "code")
  \/ ~exited /\ \E d \in Domains : RemovalTimer(d)
  \/ \E ord \in Orders : Shutdown(ord)

SpecShutdown == Init /\ [][NextShutdown]_vars

\* A call that updates the last access of every record of the table.
UpdateLastAccess_EveryRecord(d) ==
  /\ d \in Domains
  /\ Commit(updateLastAccess(updateLastAccess(Cur, "a.nextium"), "b.nextium"))

\* A call of the exported updateLastAccess(domain) (lines 499-506, 626).
UpdateLastAccess(d) ==
  /\ d \in Domains
  /\ Commit(updateLastAccess(Cur, d))

\* Calls of updateLastAccess while two projects start, run and exit and the
\* clock advances.
NextAccess ==
  \/ \E t \in Tasks : StartCall(t, "a.nextium", [manual |-> FALSE, streamLogs |-> FALSE])
  \/ \E t \in Tasks : StartCall(t, "b.nextium", [manual |-> TRUE, streamLogs |-> TRUE])
  \/ \E t \in Tasks : ProbePort(t, TRUE, "ok")
  \/ \E t \in Tasks : StartTick(t)
  \/ \E t \in Tasks : ReadyOutput(t)
  \/ \E t \in Tasks : StreamDelay(t)
  \/ \E c \in Tasks : ProcExit(c, "code")
  \/ \E d \in Domains : RemovalTimer(d)
  \/ \E d \in Domains : UpdateLastAccess(d)
  \/ Advance

SpecAccess == Init /\ [][NextAccess]_vars

\* The state after construction when the content of the processes file is
\* followed: no write has happened, the file (if it exists) shows no record
\* of this supervisor.
InitPersist ==
  /\ tasks = [t \in Tasks |-> NoTask]
  /\ child = [t \in Tasks |-> NoChild]
  /\ info = [t \in Tasks |-> NoInfo]
  /\ runningProcesses = [d \in Domains |-> 0]
  /\ delTimers = [d \in Domains |-> 0]
  /\ now = 0
  /\ sweep = NoSweep
  /\ idleConfig = [d \in Domains |-> IdleSet(DefaultIdle)]
  /\ requestCounts = [h \in {} |-> NoWindow]
  /\ admitted = [h \in {} |-> NoneAdmitted]
  /\ exited = FALSE
  /\ scan = NoScan
  /\ watch = NoWatch
  /\ persisted = [d \in Domains |-> NoEntry]

\* The processes file while two projects start, run, are accessed and exit:
\* every call of updatePersistedProcesses (lines 349, 417, 504) writes it.
NextPersist ==
  \/ \E t \in Tasks : StartCall(t, "a.nextium", [manual |-> FALSE, streamLogs |-> FALSE])
  \/ \E t \in Tasks : StartCall(t, "b.nextium", [manual |-> TRUE, streamLogs |-> TRUE])
  \/ \E t \in Tasks : ProbePort(t, TRUE, "ok")
  \/ \E t \in Tasks : StartTick(t)
  \/ \E t \in Tasks : ReadyOutput(t)
  \/ \E t \in Tasks : StreamDelay(t)
  \/ \E c \in Tasks : ProcExit(c, "code")
  \/ \E d \in Domains : RemovalTimer(d)
  \/ \E d \in Domains : UpdateLastAccess(d)

SpecPersist == InitPersist /\ [][NextPersist]_vars

\* The requests for one project while the clock advances: the rate limiter
\* admits or rejects them, an admitted one triggers the start of the project
\* or is forwarded to its process.
NextReject ==
  \/ \E t \in Tasks : HandleRequest(t, <<"a.nextium">>)
  \/ \E t \in Tasks : ProbePort(t, TRUE, "ok")
  \/ \E t \in Tasks : StartTick(t)
  \/ \E t \in Tasks : ReadyOutput(t)
  \/ Advance

SpecReject == Init /\ [][NextReject]_vars

\* The stops of one project: its start, graceful stops of it at any time,
\* forced stops once it runs or is being stopped, the grace timer of a stop
\* and the events of the process.  The grace timer of a pending stop fires
\* unless the exit clears it.
NextStop ==
  \/ \E t \in Tasks : StartCall(t, "a.nextium", [manual |-> FALSE, streamLogs |-> FALSE])
  \/ \E t \in Tasks : ProbePort(t, TRUE, "ok")
  \/ \E t \in Tasks : StartTick(t)
  \/ \E t \in Tasks : ReadyOutput(t)
  \/ \E t \in Tasks : StopCall(t, "a.nextium", FALSE)
  \/ \E t \in Tasks :
       /\ runningProcesses["a.nextium"] # 0
       /\ info[runningProcesses["a.nextium"]].state \in {RUNNING, STOPPING}
       /\ StopCall(t, "a.nextium", TRUE)
  \/ \E t \in Tasks : StopTimeout(t)
  \/ \E c \in Tasks : ProcExit(c, "code")
  \/ \E d \in Domains : RemovalTimer(d)

StopFairness == \A t \in Tasks : WF_vars(StopTimeout(t))

SpecStop == Init /\ [][NextStop]_vars /\ StopFairness

\* The port scan alone, over every range within ScanPorts.
ScanPorts == PortRangeStart .. PortRangeStart + MaxScan

NextPorts ==
  \/ \E start \in ScanPorts, end \in (PortRangeStart - 1) .. (PortRangeStart + MaxScan) :
       FindCall(start, end)
  \/ AllocateCall
  \/ \E free \in BOOLEAN : ScanProbe(free)

SpecPorts == Init /\ [][NextPorts]_vars

\* The config watcher alone.
NextWatch ==
  \/ \E ok \in BOOLEAN : SetupConfigWatcher(ok)
  \/ \E keys \in KeyLists : ConfigWrite(keys)
  \/ \E installed, ca \in BOOLEAN : MkcertChange(installed, ca)
  \/ DebounceFire
  \/ Sighup

SpecWatch == Init /\ [][NextWatch]_vars

\* ================================================================ properties

\* The state of the record the table holds for domain d.
RecState(d) == IF runningProcesses[d] = 0 THEN "absent" ELSE info[runningProcesses[d]].state

\* The live processes the supervisor spawned for domain d.
LiveChildren(d) == {c \in Tasks : child[c].alive /\ child[c].domain = d}

\* A start that failed in its catch block: after the record was registered.
FailedAtReadiness(t) ==
  /\ tasks[t].op \in {"start", "request"}
  /\ tasks[t].pc = "done"
  /\ tasks[t].result = "error"
  /\ tasks[t].cause \in {"timeout", "exited", "killed"}


\* The idle sweep calls stopDevServer for domain d in this step.
SweepStops(d) ==
  /\ d \in sweep'.stopped
  /\ ~(sweep.pc # "idle" /\ d \in sweep.stopped)

\* C12: the idle sweep never calls stop on a record that is manual: in every
\* step in which checkIdleProcesses calls stopDevServer for a domain, the
\* record of that domain is neither in state MANUAL nor of mode manual.
C12_SweepSparesManual ==
  [][\A d \in Domains :
       SweepStops(d) => /\ RecState(d) # MANUAL
                        /\ info[runningProcesses[d]].mode # "manual"]_vars

\* A sweep has examined a MANUAL record that was idle for longer than its
\* timeout, and has not called stop for it.
C12_Witness ==
  \E d \in Domains :
    /\ d \in sweep.seen \ sweep.stopped
    /\ RecState(d) = MANUAL
    /\ sweep.now - info[runningProcesses[d]].lastAccess > idleTimeout(Cur, d)


\* The idle sweep examines the record of domain d in this step.
SweepExamines(d) ==
  /\ d \in sweep'.seen
  /\ ~(sweep.pc # "idle" /\ d \in sweep.seen)

\* The time the sweep that takes this step has read at its start.
SweepTime == IF sweep.pc = "idle" THEN now ELSE sweep.now

\* The idle timeout the registry configures for the project of domain d.
ConfiguredIdle(d) == IF idleConfig[d].set THEN idleConfig[d].ms ELSE DefaultIdle

\* C13: in an idle sweep, stop is called on an examined domain if and only if
\* its record is RUNNING, of mode managed, and now - lastAccess exceeds the
\* timeout configured for its project (any value >= 0, 0 included); the
\* default applies only when no value is configured.
C13_StopIffIdleByConfig ==
  [][\A d \in Domains :
       SweepExamines(d) =>
         (SweepStops(d) <=>
            /\ RecState(d) = RUNNING
            /\ info[runningProcesses[d]].mode = "managed"
            /\ SweepTime - info[runningProcesses[d]].lastAccess > ConfiguredIdle(d))]_vars

\* The same with the timeout line 562 computes.
SweepFollowsCode ==
  [][\A d \in Domains :
       SweepExamines(d) =>
         (SweepStops(d) <=>
            /\ RecState(d) = RUNNING
            /\ info[runningProcesses[d]].mode = "managed"
            /\ SweepTime - info[runningProcesses[d]].lastAccess > idleTimeout(Cur, d))]_vars


\* C15: a managed record in RUNNING whose domain receives no further requests
\* is eventually stopped by the idle sweep and returns to STOPPED.  In the
\* form a finite run refutes: until then the record stays in the table, where
\* the sweep finds it; a step takes a managed RUNNING record only to RUNNING,
\* STOPPING or STOPPED.  A record that leaves the table while RUNNING is
\* never examined by a sweep again and never becomes STOPPED.
C15_IdleRecordIsReaped ==
  [][\A d \in Domains :
       (RecState(d) = RUNNING /\ info[runningProcesses[d]].mode = "managed")
         => RecState(d)' \in {RUNNING, STOPPING, STOPPED}]_vars


\* A request for hostname h is handled in this step.
RequestFor(h) ==
  /\ now' = now
  /\ \E t \in Tasks :
       /\ FreeSlot(t)
       /\ tasks'[t].op = "request" /\ tasks'[t].d = h
       /\ tasks'[t] # tasks[t] \/ requestCounts' # requestCounts \/ admitted' # admitted

\* The window of hostname h and the requests admitted for it, in the state
\* before and in the state after a step.
Win(h) == MapGet(requestCounts, h, NoWindow)
WinAfter(h) == MapGet(requestCounts', h, NoWindow)
Adm(h) == MapGet(admitted, h, NoneAdmitted)
AdmAfter(h) == MapGet(admitted', h, NoneAdmitted)

\* The rate limiter admits a request for hostname h in this step.
Admits(h) == AdmAfter(h)[Window] = Adm(h)[Window] + 1

\* The hostnames that pass the test of line 262.
Keyed(h) == EndsWithNextium(h) \/ h \in DOMAIN mappings

\* C16: a request that arrives when its hostname has no window, or after the
\* reset time of the window, starts a fresh window with count 1 and is
\* admitted; a request within the window is counted and is admitted exactly
\* when it is among the first Limit of the window; the windows of the other
\* hostnames are left alone.
C16_FixedWindow ==
  [][\A h \in HostNames :
       (RequestFor(h) /\ Keyed(h)) =>
         /\ IF ~Win(h).has \/ now > Win(h).resetAt
            THEN /\ WinAfter(h) = [has |-> TRUE, count |-> 1, resetAt |-> now + Window]
                 /\ Admits(h)
            ELSE /\ WinAfter(h) = [Win(h) EXCEPT !.count = @ + 1]
                 /\ Admits(h) <=> WinAfter(h).count <= Limit
                 /\ ~Admits(h) => AdmAfter(h) = Adm(h)
         /\ Admits(h) <=> \A t \in Tasks : FreeSlot(t) => tasks'[t].resp # "429"
         /\ \A g \in HostNames \ {h} :
              WinAfter(g) = Win(g) /\ AdmAfter(g) = Adm(g)]_vars

\* A hostname has a fresh window that followed an expired one, while the
\* window of another hostname has rejected a request.
C16_Witness ==
  \E g, h \in HostNames :
    /\ Win(g) = [has |-> TRUE, count |-> 1, resetAt |-> now + Window]
    /\ Adm(g)[Window - 1] > 0
    /\ Win(h).count > Limit
    /\ now <= Win(h).resetAt

\* The requests for hostname h admitted at the last n ticks of the history.
RECURSIVE AdmittedIn(_, _)
AdmittedIn(h, n) == IF n = 0 THEN 0 ELSE Adm(h)[Window + 1 - n] + AdmittedIn(h, n - 1)

ManagedPath(t) ==
  \/ tasks[t].resp = "loading"
  \/ /\ tasks[t].resp = "forwarded"
     /\ tasks[t].fwd \in PortRange

\* The route of the request of task t, for the hostname h of its Host header:
\* the managed path for a project, else the mapped port, else 404.
Routed(t, h) ==
  IF getProject(h).found THEN ManagedPath(t)
  ELSE IF h \in DOMAIN mappings
  THEN tasks[t].resp = "forwarded" /\ tasks[t].fwd = mappings[h]
  ELSE tasks[t].resp = "404"

\* C18: for every hostname (the Host header up to a port suffix): the request
\* takes the managed path if the hostname is the domain of a project;
\* otherwise it is forwarded to the mapped port if the hostname is a static
\* mapping; otherwise the response is 404.  A project goes before a mapping
\* of the same hostname.
C18_ResolutionOrder ==
  \A t \in Tasks :
    (tasks[t].op = "request" /\ tasks[t].pc # "free")
      => Routed(t, hostname(tasks[t].hdr))

\* C18, with the rate limiter in its place: a request the limiter rejects
\* is answered 429, and only a request for a hostname with the suffix or
\* with a mapping whose window is beyond the limit is; every other request
\* is routed in the order project, mapping, 404.
C18_ResolutionOrderOfAdmitted ==
  \A t \in Tasks :
    (tasks[t].op = "request" /\ tasks[t].pc # "free")
      => LET h == hostname(tasks[t].hdr) IN
         IF tasks[t].resp = "429"
         THEN Keyed(h) /\ Win(h).count > Limit
         ELSE Routed(t, h)

\* A request for a project that also has a mapping, with a port suffix in its
\* Host header, has taken the managed path, and a request for a hostname
\* with the suffix and no project was answered 429.
C18_Witness ==
  \E t, u \in Tasks :
    /\ tasks[t].hdr = <<"a.nextium", ":", "8080">>
    /\ tasks[t].resp = "loading" /\ tasks[t].result = "ok"
    /\ tasks[u].hdr = <<"u.nextium">>
    /\ tasks[u].resp = "429"


\* The request of task t has triggered a start, which is in progress, has
\* succeeded or has failed.
TriggeredStart(t) ==
  /\ tasks[t].op = "request"
  /\ InStart(Cur, t) \/ (tasks[t].pc = "done" /\ tasks[t].result \in {"ok", "error"})

\* C19: a request that triggers a start is answered with the interim page
\* before the start completes, and is never forwarded to a backend, whether
\* the start succeeds or fails.
C19_TriggeringRequestGetsLoadingPage ==
  \A t \in Tasks :
    TriggeredStart(t) => (tasks[t].resp = "loading" /\ tasks[t].fwd = 0)

\* The start one request has triggered has succeeded, the start another
\* request has triggered has failed.
C19_Witness ==
  \E t, u \in Tasks :
    /\ TriggeredStart(t) /\ tasks[t].result = "ok"
    /\ TriggeredStart(u) /\ tasks[u].result = "error"

\* C20: when a start that a request has triggered fails, a response with
\* status 503 is delivered for that request.
C20_FailedStartAnswered503 ==
  \A t \in Tasks :
    (TriggeredStart(t) /\ tasks[t].result = "error") => tasks[t].resp = "503"


\* The router forwards the request of task t to a backend in this step.
Forwards(t) ==
  /\ tasks'[t] # tasks[t]
  /\ tasks'[t].op = "request"
  /\ tasks'[t].result = "forwarded"

\* C21: the router forwards a request for a project to the port of its
\* record (and bumps lastAccess) only when the record is RUNNING or MANUAL;
\* a request that arrives while the record is STARTING is not forwarded.
C21_ForwardOnlyWhenReady ==
  [][\A t \in Tasks :
       (Forwards(t) /\ getProject(tasks'[t].d).found)
         => RecState(tasks'[t].d) \in {RUNNING, MANUAL}]_vars


\* C22: when the router has exited on a termination signal, every process
\* the supervisor has spawned and that has not exited has been sent SIGKILL,
\* and the table is empty; this holds for a process whose start has not
\* registered its record yet.
C22_ShutdownKillsEveryProcess ==
  exited =>
    /\ \A c \in Tasks : child[c].alive => child[c].sig = "SIGKILL"
    /\ \A d \in Domains : runningProcesses[d] = 0


\* The ports of the range of the scan.
ScanRange == scan.start .. scan.end

\* C23: findAvailablePort(start, end) probes start, start + 1, ... one at a
\* time; a port it returns is in the range, was free when probed, and every
\* lower port of the range was occupied when probed; it returns no port only
\* when every port of the range was occupied when probed (or the range is
\* empty), and then a start fails with "no available ports".
C23_LowestFreePort ==
  /\ \A i \in 1..Len(scan.probed) : scan.probed[i].port = scan.start + i - 1
  /\ \A i \in 1..(Len(scan.probed) - 1) : ~scan.probed[i].free
  /\ scan.pc = "probe" =>
        /\ scan.port = scan.start + Len(scan.probed)
        /\ scan.port \in ScanRange
  /\ (scan.pc = "done" /\ scan.ret # 0) =>
        /\ scan.ret \in ScanRange
        /\ scan.probed # <<>>
        /\ scan.probed[Len(scan.probed)] = [port |-> scan.ret, free |-> TRUE]
        /\ scan.error = "none"
  /\ (scan.pc = "done" /\ scan.ret = 0) =>
        /\ Len(scan.probed) = Cardinality(ScanRange)
        /\ \A i \in 1..Len(scan.probed) : ~scan.probed[i].free
        /\ scan.via = "allocatePort" => scan.error = "no port"

C23_Witness ==
  /\ scan.pc = "done"
  /\ scan.ret # 0
  /\ Len(scan.probed) >= 2


\* The settle timer of a restart fires in this step for call t: restart
\* runs its start step.
RestartStarts(t) ==
  /\ tasks[t].op = "restart"
  /\ tasks[t].pc = "settle"
  /\ tasks'[t] # tasks[t]

\* C24: the start step of restart(domain), run after its stop step has
\* stopped a record, is not rejected as already active, and when the start
\* step goes on to spawn, no process of the domain that a stop has signalled
\* is still alive.
C24_RestartStartsAfterOldExit ==
  [][\A t \in Tasks :
       (RestartStarts(t) /\ tasks[t].result = "true") =>
         /\ ~(tasks'[t].result = "error" /\ tasks'[t].cause = "already active")
         /\ tasks'[t].pc = "alloc" =>
               \A c \in Tasks :
                 (child[c].domain = tasks[t].d /\ child[c].killed) => ~child[c].alive]_vars


\* Process c, the process of a RUNNING or MANUAL record, exits in this step.
UnexpectedExit(c) ==
  /\ child[c].alive
  /\ ~child'[c].alive
  /\ runningProcesses[child[c].domain] = c
  /\ info[c].state \in {RUNNING, MANUAL}

\* C25: when the process of a RUNNING or MANUAL record exits, the record
\* stays in the table as STOPPED with the exit code and signal recorded, and
\* the step spawns no process and starts no call; a process is spawned only
\* by a call of startDevServer that has allocated its port.
C25_UnexpectedExitStopsRecord ==
  [][/\ \A c \in Tasks :
          UnexpectedExit(c) =>
            /\ runningProcesses'[child[c].domain] = c
            /\ info'[c].state = STOPPED
            /\ info'[c].exitRecorded
            /\ \A u \in Tasks : child'[u].alive => child[u].alive
            /\ \A u \in Tasks : tasks'[u].pc = "alloc" => tasks[u].pc = "alloc"
     /\ \A u \in Tasks :
          (child'[u].alive /\ ~child[u].alive) => tasks[u].pc = "alloc"]_vars

C25_Witness ==
  \E c \in Tasks :
    /\ child[c].pid = c
    /\ ~child[c].alive
    /\ child[c].sig = "none"
    /\ runningProcesses[child[c].domain] = c
    /\ info[c].state = STOPPED
    /\ info[c].exitRecorded


\* C26: the lastAccess of a record that stays in the table never decreases,
\* and the lastAccess of a record in the table is not earlier than its
\* startedAt.
C26_LastAccessMonotone ==
  [][\A d \in Domains :
       /\ (runningProcesses[d] # 0 /\ runningProcesses'[d] = runningProcesses[d]) =>
            info'[runningProcesses[d]].lastAccess >= info[runningProcesses[d]].lastAccess
       /\ runningProcesses'[d] # 0 =>
            info'[runningProcesses'[d]].lastAccess >= info'[runningProcesses'[d]].startedAt]_vars

C26_Witness ==
  \E d \in Domains :
    /\ runningProcesses[d] # 0
    /\ info[runningProcesses[d]].startedAt > 0
    /\ info[runningProcesses[d]].lastAccess > info[runningProcesses[d]].startedAt


\* C27: a run of handleConfigChange calls ensureCertificates, with the new
\* list of domains, if and only if the set of mapped domains differs from
\* the remembered one, and afterwards the remembered set is the set of
\* mapped domains.
C27_CertificatesIffChanged ==
  watch.last.ran =>
    /\ watch.last.called <=> Range(watch.last.new) # Range(watch.last.old)
    /\ watch.last.called => watch.last.arg = watch.last.new
    /\ Range(watch.last.after) = Range(watch.last.new)

\* C27, amended: a run of handleConfigChange calls ensureCertificates, with
\* the new list of domains, if and only if the set of mapped domains differs
\* from the remembered one, the new list is not empty, and mkcert and its
\* CA are installed; afterwards the remembered set is the set of mapped
\* domains.
C27_CertificatesIffChangedAndAvailable ==
  watch.last.ran =>
    /\ watch.last.called <=>
         /\ Range(watch.last.new) # Range(watch.last.old)
         /\ watch.last.new # <<>>
         /\ watch.last.mkcert
    /\ watch.last.called => watch.last.arg = watch.last.new
    /\ Range(watch.last.after) = Range(watch.last.new)

C27_Witness ==
  /\ watch.last.ran
  /\ watch.last.called
  /\ watch.last.old # <<>>


\* Process c exits in this step.
Exits(c) == child[c].alive /\ ~child'[c].alive

\* The start that registered record p fails in this step.
OwnStartFails(p) ==
  /\ tasks[p].pc = "ready"
  /\ tasks'[p].pc = "done"
  /\ tasks'[p].result = "error"

\* C28: the exit of a process leaves the record of another process of its
\* domain as it is, and the entry of a domain whose record is STARTING,
\* RUNNING or MANUAL is deleted only by the failure of the start of that
\* record, at or after the exit of its process, or by cleanup.
C28_ObserversActOnOwnRecord ==
  [][/\ \A c \in Tasks :
          LET p == runningProcesses[child[c].domain] IN
          (Exits(c) /\ p # 0 /\ p # c) =>
            /\ runningProcesses'[child[c].domain] = p
            /\ info'[p].state = info[p].state
     /\ \A d \in Domains :
          LET p == runningProcesses[d] IN
          (p # 0 /\ info[p].state \in {STARTING, RUNNING, MANUAL}
                 /\ runningProcesses'[d] = 0) =>
            OwnStartFails(p) \/ ~child'[p].alive \/ exited']_vars


\* C29: a record in the table that is STOPPED has a removal timer pending
\* for its domain, so that it is removed when the grace period ends; this
\* holds for a record that the error observer has set to STOPPED.
C29_StoppedRecordHasRemovalPending ==
  \A d \in Domains :
    (runningProcesses[d] # 0 /\ info[runningProcesses[d]].state = STOPPED)
      => delTimers[d] > 0


\* The table holds a record of hostname h in STARTING, RUNNING or MANUAL
\* whose pid is not the pid of a live process.
StaleRecord(h) ==
  /\ runningProcesses[h] # 0
  /\ info[runningProcesses[h]].state \in {STARTING, RUNNING, MANUAL}
  /\ info[runningProcesses[h]].pid # 0
  /\ ~child[runningProcesses[h]].alive

\* The router handles a request of call t for hostname h in this step.
Requests(t, h) ==
  /\ FreeSlot(t)
  /\ tasks'[t] # tasks[t]
  /\ tasks'[t].op = "request"
  /\ tasks'[t].d = h

\* C30: a request for a project whose record is stale triggers a start that
\* is not rejected as already active: the start goes on to allocate a port
\* for a new process.
C30_StaleRecordIsRestarted ==
  [][\A t \in Tasks, h \in Domains :
       (Requests(t, h) /\ StaleRecord(h)) =>
         /\ tasks'[t].resp = "loading"
         /\ tasks'[t].pc = "alloc"]_vars


\* The start of call t, whose process was spawned, completes in this step
\* and the process has exited by then.
CompletesAfterExit(t) ==
  /\ tasks[t].pc \in {"tick", "ready"}
  /\ tasks'[t].pc = "done"
  /\ child[t].pid # 0
  /\ ~child'[t].alive

\* C31: a start whose process has exited after the spawn and before a ready
\* signature was matched fails with the exited-before-ready error, and not
\* with a readiness timeout or a success.
C31_ExitBeforeReadyIsReported ==
  [][\A t \in Tasks :
       CompletesAfterExit(t) =>
         (tasks'[t].result = "error" /\ tasks'[t].cause = "exited")]_vars


\* C32: in passthrough mode a start whose process was spawned succeeds
\* exactly when, at the end of the readiness delay, the process has neither
\* exited nor been killed; and when the process exits during the delay, the
\* start fails in the same step with the exited-before-ready error.
C32_PassthroughReadiness ==
  [][\A t \in Tasks :
       /\ (tasks[t].streamLogs /\ tasks[t].pc \in {"tick", "ready"}
             /\ tasks'[t].pc = "done" /\ child[t].pid # 0) =>
            (tasks'[t].result = "ok" <=> (child'[t].alive /\ ~child'[t].killed))
       /\ (tasks[t].streamLogs /\ tasks[t].pc = "ready" /\ Exits(t)) =>
            /\ tasks'[t].pc = "done"
            /\ tasks'[t].result = "error"
            /\ tasks'[t].cause = "exited"]_vars


\* stopDevServer(d, force) is called in this step by call t while the record
\* of d is not STOPPED and its process is alive.
StopsLive(t, d, force) ==
  /\ RecState(d) \notin {"absent", STOPPED}
  /\ child[runningProcesses[d]].alive
  /\ StopCall(t, d, force)

\* The grace timer of the stop of call t fires in this step.
GraceElapses(t) ==
  /\ tasks[t].pc = "stopwait"
  /\ tasks'[t].pc # "stopwait"
  /\ child'[tasks[t].target].alive

\* C33: a graceful stop of a live process sends SIGTERM and waits; SIGKILL
\* is sent to a process only while it is alive, by a forced stop or when
\* the grace timer of a stop of this process fires; a forced stop sends
\* SIGKILL and resolves in the step of the call; and every stop that waits
\* resolves.
C33_StopEscalation ==
  /\ [][/\ \A t \in Tasks, d \in Domains :
             LET p == runningProcesses[d] IN
             /\ StopsLive(t, d, FALSE) =>
                  /\ child[p].sig = "none" => child'[p].sig = "SIGTERM"
                  /\ tasks'[t].pc = "stopwait"
             /\ StopsLive(t, d, TRUE) =>
                  /\ child'[p].sig = "SIGKILL"
                  /\ tasks'[t].pc = "done" /\ tasks'[t].result = "true"
        /\ \A c \in Tasks :
             (child[c].pid # 0 /\ child[c].sig # "SIGKILL" /\ child'[c].sig = "SIGKILL") =>
               /\ child[c].alive
               /\ \/ \E t \in Tasks : GraceElapses(t) /\ tasks[t].target = c
                  \/ \E t \in Tasks : StopCall(t, child[c].domain, TRUE)]_vars
  /\ \A t \in Tasks : (tasks[t].pc = "stopwait") ~> (tasks[t].pc # "stopwait")

\* C33 witness: a graceful stop has resolved after its grace timer sent
\* SIGKILL to a process that is still alive.
C33_Witness ==
  \E t, c \in Tasks :
    /\ tasks[t].op = "stop" /\ tasks[t].pc = "done" /\ tasks[t].result = "true"
    /\ child[c].alive /\ child[c].sig = "SIGKILL" /\ child[c].domain = tasks[t].d
    /\ info[c].state = STOPPING


\* The start attempt of call t fails in this step.
StartFails(t) ==
  /\ tasks[t].pc # "done" \/ FreeSlot(t)
  /\ tasks'[t] # tasks[t]
  /\ tasks'[t].op \in {"start", "request"}
  /\ tasks'[t].pc = "done"
  /\ tasks'[t].result = "error"

\* A step of the start attempt of call t: its call, a stage of it, its end.
StartActs(t) ==
  /\ tasks'[t] # tasks[t]
  /\ tasks'[t].op \in {"start", "request"}

Rejects(t) ==
  /\ FreeSlot(t)
  /\ requestCounts' # requestCounts
  /\ tasks'[t].op = "request"
  /\ tasks'[t].hdr # <<>>
  /\ ~Admits(tasks'[t].d)

\* C35: a request that the rate limiter rejects is answered with 429 and
\* nothing else: its handler ends in the same step, triggers no start,
\* forwards nothing, and leaves the table, the records (lastAccess
\* included), the processes and the removal timers unchanged.
C35_RejectedRequestHasNoEffect ==
  [][\A t \in Tasks :
       Rejects(t) =>
         /\ tasks'[t].pc = "done"
         /\ tasks'[t].resp = "429" /\ ~tasks'[t].respError
         /\ tasks'[t].result = "429"
         /\ tasks'[t].fwd = 0
         /\ UNCHANGED <<child, info, runningProcesses, delTimers>>]_vars

\* C35 witness: a request was rejected while the record of its domain is
\* RUNNING and was last accessed before the current time.
C35_Witness ==
  \E t \in Tasks :
    /\ tasks[t].op = "request" /\ tasks[t].resp = "429"
    /\ tasks[t].d \in Domains
    /\ RecState(tasks[t].d) = RUNNING
    /\ info[runningProcesses[tasks[t].d]].lastAccess < now


\* The hostnames the configuration names: the project domains and the
\* hostnames of the static mappings.
Configured == Domains \cup DOMAIN mappings

\* C36: every hostname that holds a rate-limit window is a configured
\* project domain or the hostname of a static mapping.
C36_WindowsOnlyForConfigured == DOMAIN requestCounts \subseteq Configured


\* State s2 differs from state s in nothing but the lastAccess of the record
\* of domain d, which is the current time.
OnlyLastAccess(s, d, s2) ==
  /\ s2.rp = s.rp
  /\ s2.tasks = s.tasks /\ s2.child = s.child /\ s2.dt = s.dt
  /\ \A p \in Tasks :
       s2.info[p] = IF p = s.rp[d]
                    THEN [s.info[p] EXCEPT !.lastAccess = s.now]
                    ELSE s.info[p]

\* C37: updateLastAccess(domain) sets the lastAccess of the record of the
\* domain to the current time and changes nothing else: the state, pid, port
\* and mode of the record, the table, the records of the other domains, the
\* processes and the removal timers are as before, and when the domain has
\* no record the call changes nothing.
C37_UpdateLastAccessFrame ==
  /\ [](\A d \in Domains :
         /\ OnlyLastAccess(Cur, d, updateLastAccess(Cur, d))
         /\ runningProcesses[d] = 0 => updateLastAccess(Cur, d) = Cur)
  /\ [][\A d \in Domains :
         UpdateLastAccess(d) =>
           /\ UNCHANGED <<runningProcesses, tasks, child, delTimers>>
           /\ runningProcesses[d] = 0 => info' = info
           /\ \A p \in Tasks :
                info'[p] = IF p = runningProcesses[d]
                           THEN [info[p] EXCEPT !.lastAccess = now]
                           ELSE info[p]]_vars

\* C37 witness: updateLastAccess was called for a.nextium after the start
\* of its record, which holds the current time as lastAccess, while
\* b.nextium holds a record that was last accessed earlier.
C37_Witness ==
  /\ runningProcesses["a.nextium"] # 0
  /\ runningProcesses["b.nextium"] # 0
  /\ info[runningProcesses["a.nextium"]].lastAccess = now
  /\ info[runningProcesses["a.nextium"]].startedAt < now
  /\ info[runningProcesses["b.nextium"]].lastAccess < now


\* The record of domain d is in the table and is STARTING, RUNNING or MANUAL.
Active(d) ==
  /\ runningProcesses[d] # 0
  /\ info[runningProcesses[d]].state \in {STARTING, RUNNING, MANUAL}

\* C38: no two records of different domains that are STARTING, RUNNING or
\* MANUAL hold the same port.
C38_ActivePortsDistinct ==
  \A d, e \in Domains :
    (d # e /\ Active(d) /\ Active(e)) =>
      info[runningProcesses[d]].port # info[runningProcesses[e]].port


\* C39: the response of every request is written once: no handler writes a
\* status line to a response that has been ended (the write that throws and
\* leaves the handler as an uncaught error), and a handler that has finished
\* has written a response.
C39_ResponseWrittenOnce ==
  \A t \in Tasks :
    tasks[t].op = "request" =>
      /\ ~tasks[t].respError
      /\ tasks[t].pc = "done" => tasks[t].resp # "none"


\* The record of domain d leaves the table in this step, having been marked
\* STOPPED by the exit of a process whose start had succeeded, that is,
\* which exited while the record was RUNNING or MANUAL.
StoppedRecordLeaves(d) ==
  /\ runningProcesses[d] # 0
  /\ runningProcesses'[d] # runningProcesses[d]
  /\ info[runningProcesses[d]].state = STOPPED
  /\ info[runningProcesses[d]].exitRecorded
  /\ tasks[runningProcesses[d]].op = "start"
  /\ tasks[runningProcesses[d]].result = "ok"

\* C40: the processes file shows the record of a process that exited while
\* RUNNING or MANUAL as STOPPED, with its exit code or signal, before the
\* record is removed from the table.  The record stays STOPPED from the
\* exit to the removal, so a file that has shown it STOPPED in between
\* still shows it STOPPED when the record leaves the table.
C40_PersistedShowsStopped ==
  [][\A d \in Domains :
       StoppedRecordLeaves(d) =>
         (persisted[d].state = STOPPED /\ persisted[d].exitRecorded)]_vars

\* C11: every call of startDevServer that is in progress completes, and a
\* record in STARTING does not stay in STARTING forever, whatever the child
\* does (it need neither write a ready line nor exit).
C11_StartCompletes ==
  /\ \A t \in Tasks : InStart(Cur, t) ~> ~InStart(Cur, t)
  /\ \A d \in Domains : (RecState(d) = STARTING) ~> (RecState(d) # STARTING)

\* C11 witness: a start of a child that is still alive has failed by the
\* readiness timeout.
C11_Witness ==
  \E t \in Tasks :
    /\ FailedAtReadiness(t) /\ tasks[t].cause = "timeout"
    /\ child[t].alive

\* C1: for every domain at most one process spawned by the supervisor is
\* alive, in every reachable state.
C1_AtMostOneLiveProcess ==
  \A d \in Domains : Cardinality(LiveChildren(d)) <= 1

\* C2: two overlapping start triggers of one domain never both spawn a
\* process: while both calls are in flight at most one of them has a child.
C2_OverlappingStartsSpawnOnce ==
  \A t, u \in Tasks :
    (t # u /\ InStart(Cur, t) /\ InStart(Cur, u) /\ tasks[t].d = tasks[u].d)
      => ~(child[t].pid # 0 /\ child[u].pid # 0)

\* C3: a record is STOPPED only when the process whose pid it stores has
\* exited.
C3_StoppedOnlyAfterExit ==
  \A d \in Domains :
    RecState(d) = STOPPED => ~child[runningProcesses[d]].alive

\* C4: in every step in which stopDevServer resolves with true (graceful exit,
\* escalation after the grace window, or force = true), the process of the
\* record it stopped has exited.
C4_StopResolvesAfterExit ==
  [][\A t \in Tasks :
       /\ (tasks[t].pc = "stopwait" /\ tasks'[t].pc # "stopwait")
            => ~child'[tasks[t].target].alive
       /\ (/\ tasks'[t].op = "stop" /\ tasks'[t].result = "true"
           /\ tasks'[t].d \in Domains
           /\ StopCall(t, tasks'[t].d, TRUE))
            => ~child'[runningProcesses[tasks'[t].d]].alive]_vars

\* C5: stopDevServer on a domain without record, or with a STOPPED record,
\* returns false at once and changes neither the table, nor a record, nor a
\* process (no signal), nor a timer; so any repetition gives the same again.
C5_StopOfStoppedIsNoOp ==
  [][\A t \in Tasks, f \in BOOLEAN :
       LET d == tasks'[t].d IN
       (/\ tasks'[t].op = "stop"
        /\ d \notin Domains \/ RecState(d) \in {"absent", STOPPED}
        /\ StopCall(t, d, f))
         => /\ tasks'[t].pc = "done" /\ tasks'[t].result = "false"
            /\ UNCHANGED <<child, info, runningProcesses, delTimers>>]_vars

\* C5 witness: a stop has returned false for a domain whose record is STOPPED.
C5_Witness ==
  \E t \in Tasks :
    /\ tasks[t].op = "stop" /\ tasks[t].pc = "done" /\ tasks[t].result = "false"
    /\ tasks[t].d \in Domains /\ RecState(tasks[t].d) = STOPPED

\* C6: startDevServer called while the record of the domain is STARTING,
\* RUNNING, MANUAL or STOPPING fails with the already-active error in the same
\* turn, probes no port, spawns nothing and leaves table, records, processes
\* and timers unchanged; no call ever goes on to the port probe past such a
\* record.
C6_StartOfActiveRejected ==
  [][\A t \in Tasks :
       /\ \A o \in StartOptions :
            (/\ tasks'[t].op = "start" /\ tasks'[t].d \in Domains
             /\ RecState(tasks'[t].d) \in {STARTING, RUNNING, MANUAL, STOPPING}
             /\ StartCall(t, tasks'[t].d, o))
              => /\ tasks'[t].pc = "done" /\ tasks'[t].result = "error"
                 /\ tasks'[t].cause = "already active"
                 /\ UNCHANGED <<child, info, runningProcesses, delTimers>>
       /\ (tasks[t].pc \notin {"alloc", "tick", "ready"} /\ tasks'[t].pc = "alloc")
            => RecState(tasks'[t].d) \in {"absent", STOPPED}]_vars

\* C6 witness: a start was rejected as already active on a STOPPING record.
C6_Witness ==
  \E t \in Tasks :
    /\ tasks[t].op = "start" /\ tasks[t].pc = "done"
    /\ tasks[t].cause = "already active"
    /\ RecState(tasks[t].d) = STOPPING

\* C7: every record in RUNNING or MANUAL has a pid and a port.
C7_RunningHasPidAndPort ==
  \A p \in Tasks :
    info[p].state \in {RUNNING, MANUAL} => (info[p].pid # 0 /\ info[p].port # 0)

\* C7 witness: the table holds a MANUAL record and a RUNNING record.
C7_Witness ==
  /\ \E d \in Domains : RecState(d) = MANUAL
  /\ \E d \in Domains : RecState(d) = RUNNING

\* The transitions of a record's state that the state machine specifies,
\* with the removal of a STOPPED record after the grace period.
SpecifiedTransitions ==
  {<<"absent", STARTING>>, <<STOPPED, STARTING>>,
   <<STARTING, RUNNING>>, <<STARTING, MANUAL>>,
   <<RUNNING, STOPPING>>, <<MANUAL, STOPPING>>,
   <<STOPPING, STOPPED>>, <<RUNNING, STOPPED>>, <<MANUAL, STOPPED>>,
   <<STARTING, "absent">>, <<STOPPED, "absent">>}

\* C8: every change of the state of a domain's record is a specified
\* transition.
C8_OnlySpecifiedTransitions ==
  [][\A d \in Domains :
       RecState(d)' # RecState(d) => <<RecState(d), RecState(d)'>> \in SpecifiedTransitions]_vars

\* C9: a process whose start failed after the spawn is terminated forcefully:
\* once the start has returned and no pending stop holds the process any
\* more, the process is dead or the forceful kill signal has been sent to it.
C9_FailedStartForceKilled ==
  \A t \in Tasks :
    (FailedAtReadiness(t) /\ child[t].alive /\ ~HasWaiter(Cur, t))
      => child[t].sig = "SIGKILL"

\* C10: once a start has failed at readiness, the table does not hold the
\* record of that attempt and the error delivered wraps the underlying cause.
C10_FailedStartDiscardsRecord ==
  \A t \in Tasks :
    FailedAtReadiness(t)
      => /\ tasks[t].wrapped
         /\ \A d \in Domains : runningProcesses[d] # t

\* C10 witness: a start has failed by the readiness timeout and another by
\* the exit of its process before readiness.
C10_Witness ==
  /\ \E t \in Tasks : FailedAtReadiness(t) /\ tasks[t].cause = "timeout"
  /\ \E t \in Tasks : FailedAtReadiness(t) /\ tasks[t].cause = "exited"
====
